---- MODULE Spec2Model ----
(***************************************************************************)
(* Model of the single-line text input widget (TextInput) of the ebitenui  *)
(* widget package.                                                         *)
(*                                                                         *)
(* A Go string is a sequence of bytes; the widget mixes byte lengths       *)
(* (len(s), s[i:]) with code-point positions ([]rune(s)[i:]), so strings   *)
(* are modelled as byte sequences and the conversions string <-> []rune    *)
(* are modelled by what UTF-8 decoding and encoding do.                    *)
(***************************************************************************)
EXTENDS Integers, Sequences, FiniteSets, TLC

VARIABLES
    InputText,       \* t.InputText: the bytes of the Go string
    cursorPosition,  \* t.cursorPosition
    scrollOffset,    \* t.scrollOffset
    state,           \* t.state: the closure Render evaluates next
    Disabled,        \* t.widget.Disabled
    Rect,            \* t.widget.Rect (horizontal extent; the vertical one is fixed)
    validationFunc,  \* t.validationFunc: "nil" or the name of the predicate
    panicked,        \* a run-time panic has ended the program
    pc,              \* "idle" between frames, "frame" once the input is sampled
    input,           \* what the input package reports during the frame
    frame,           \* what the Render call just made did (history)
    padding,         \* f.padding of the fill layout
    dirty,           \* f.dirty of the fill layout
    location,        \* the rectangle each laid-out widget was last given
    laid,            \* what the last call on the fill layout did (history)
    call             \* the last call of a function on its own (history)

\* the fill layout and the widgets it lays out
fillVars == <<padding, dirty, location, laid>>

vars == <<InputText, cursorPosition, scrollOffset, state, Disabled, Rect,
          validationFunc, panicked, pc, input, frame, fillVars, call>>

----------------------------------------------------------------------------
(* Bounds of the model *)

\* characters are typed only into a text of fewer than MaxBytes bytes
MaxBytes == 3
\* most input events of one frame: characters typed, control keys held down
\* and mouse clicks, taken together
MaxInputs == 2
\* state evaluations after which the loop of Render is given up as divergent
MaxEvals == 6

----------------------------------------------------------------------------
(* Small helpers *)

Abs(n) == IF n < 0 THEN -n ELSE n

\* the value standing for a Go run-time panic of a string or slice operation
Panic == <<-1>>

\* seq[low:] and seq[:high] for in-range indices (0-based, Go style)
From(seq, low) == SubSeq(seq, low + 1, Len(seq))
Upto(seq, high) == SubSeq(seq, 1, high)

RECURSIVE Zeros(_)
Zeros(n) == IF n <= 0 THEN <<>> ELSE <<0>> \o Zeros(n - 1)

----------------------------------------------------------------------------
(* UTF-8: the conversions between string and []rune *)

RuneError == 65533

IsCont(b) == b >= 128 /\ b <= 191

\* utf8.DecodeRune at the head of the non-empty byte sequence s:
\* an invalid or short encoding decodes to RuneError of width 1
DecodeRune(s) ==
    LET b0 == s[1]
        n == Len(s)
        bad == [r |-> RuneError, w |-> 1]
    IN  IF b0 < 128 THEN [r |-> b0, w |-> 1]
        ELSE IF b0 >= 194 /\ b0 <= 223
        THEN IF n >= 2 /\ IsCont(s[2])
             THEN [r |-> (b0 - 192) * 64 + (s[2] - 128), w |-> 2]
             ELSE bad
        ELSE IF b0 >= 224 /\ b0 <= 239
        THEN IF /\ n >= 3
                /\ IsCont(s[2])
                /\ IsCont(s[3])
                /\ (b0 = 224 => s[2] >= 160)
                /\ (b0 = 237 => s[2] <= 159)
             THEN [r |-> (b0 - 224) * 4096 + (s[2] - 128) * 64 + (s[3] - 128),
                   w |-> 3]
             ELSE bad
        ELSE IF b0 >= 240 /\ b0 <= 244
        THEN IF /\ n >= 4
                /\ IsCont(s[2])
                /\ IsCont(s[3])
                /\ IsCont(s[4])
                /\ (b0 = 240 => s[2] >= 144)
                /\ (b0 = 244 => s[2] <= 143)
             THEN [r |-> (b0 - 240) * 262144 + (s[2] - 128) * 4096
                           + (s[3] - 128) * 64 + (s[4] - 128),
                   w |-> 4]
             ELSE bad
        ELSE bad

\* []rune(s)
RECURSIVE Runes(_)

\* the rune d decoded at the head of s, then the runes of the rest
RunesAfter(s, d) == <<d.r>> \o Runes(From(s, d.w))

Runes(s) == IF s = <<>> THEN <<>> ELSE RunesAfter(s, DecodeRune(s))

\* string(r) for one rune
EncodeRune(r) ==
    IF r < 0 \/ r > 1114111 \/ (r >= 55296 /\ r <= 57343)
    THEN <<239, 191, 189>>
    ELSE IF r < 128 THEN <<r>>
    ELSE IF r < 2048 THEN <<192 + (r \div 64), 128 + (r % 64)>>
    ELSE IF r < 65536
    THEN <<224 + (r \div 4096), 128 + ((r \div 64) % 64), 128 + (r % 64)>>
    ELSE <<240 + (r \div 262144), 128 + ((r \div 4096) % 64),
           128 + ((r \div 64) % 64), 128 + (r % 64)>>

\* string(rs) for a rune slice
RECURSIVE String(_)
String(rs) ==
    IF rs = <<>> THEN <<>> ELSE EncodeRune(Head(rs)) \o String(Tail(rs))

\* number of code points of the string s
RuneCount(s) == Len(Runes(s))

\* seq[:high]. A slice expression on a slice may reach up to its capacity,
\* and the capacity of the result of []rune(s) is left to the
\* implementation: with spare capacity (grow) the slots past the length
\* read as zero runes, without it the expression panics. A string has no
\* spare capacity.
SliceTo(seq, high, grow) ==
    IF high < 0 THEN Panic
    ELSE IF high <= Len(seq) THEN Upto(seq, high)
    ELSE IF grow THEN seq \o Zeros(high - Len(seq))
    ELSE Panic

\* seq[low:]: the low index may not pass the length
SliceFrom(seq, low) == IF low < 0 \/ low > Len(seq) THEN Panic ELSE From(seq, low)

\* []rune(s)[:pos] and []rune(s)[pos:]
RunePrefix(s, pos, grow) == SliceTo(Runes(s), pos, grow)
RuneSuffix(s, pos) == SliceFrom(Runes(s), pos)

\* s[pos:] and s[:pos] on the bytes of the string
ByteSuffix(s, pos) == SliceFrom(s, pos)
BytePrefix(s, pos) == SliceTo(s, pos, FALSE)

----------------------------------------------------------------------------
(* Configuration of the widget under study *)

\* NewTextInput: the two durations of the key repeat, in milliseconds
repeatDelay == 300
repeatInterval == 35

\* TextInputOpts.Padding: the horizontal insets of the content rectangle
PaddingLeft == 5
PaddingRight == 5

\* t.caret.Width: width of the caret glyph in pixels
CaretWidth == 2

\* TextInputOpts.Validation: the predicate "maxLen" rejects any text of more
\* than ValidationMaxLen code points
ValidationMaxLen == 2
ValidationFuncs == {"nil", "maxLen"}

validation(s) == RuneCount(s) <= ValidationMaxLen

\* the rectangle of a widget that was never laid out
ZeroRect == [MinX |-> 0, MinY |-> 0, MaxX |-> 0, MaxY |-> 0]

\* the rectangles the layout gives the widget: one 100 wide, one whose
\* content rectangle is 10 wide, and one whose content rectangle (1 wide)
\* is narrower than the caret
Rects == { [MinX |-> 0, MinY |-> 0, MaxX |-> 100, MaxY |-> 20],
           [MinX |-> -5, MinY |-> 0, MaxX |-> 15, MaxY |-> 20],
           [MinX |-> -5, MinY |-> 0, MaxX |-> 6, MaxY |-> 20] }

\* the texts the application assigns to InputText: "", "ab"
Texts == { <<>>, <<97, 98>> }

\* and the texts it assigns where the viewport is studied: "", "WW"
ScrollTexts == { <<>>, <<87, 87>> }

----------------------------------------------------------------------------
(* Font metrics *)

\* advance of one glyph of the face, in 26.6 fixed point (64 = one pixel):
\* a and b are 10 pixels wide, W 100, e-acute 10.5, the replacement
\* character 8, any other rune has no glyph
GlyphAdvance(r) ==
    CASE r = 97 -> 640
      [] r = 98 -> 640
      [] r = 87 -> 6400
      [] r = 233 -> 672
      [] r = RuneError -> 512
      [] OTHER -> 0

RECURSIVE BoundString(_)
BoundString(rs) ==
    IF rs = <<>> THEN 0 ELSE GlyphAdvance(Head(rs)) + BoundString(Tail(rs))

\* math.Round of a 26.6 value taken as pixels: halves away from zero
Round26_6(a) == IF a >= 0 THEN (a + 32) \div 64 ELSE -((32 - a) \div 64)

\* fontAdvance(s, f) for a string given by its bytes
fontAdvance(s) == Round26_6(BoundString(Runes(s)))

\* <<fontAdvance(string(rs), f)>> for the rune slice rs, <<fontAdvance(s, f)>>
\* for the string s; Panic when the slice expression that gave rs or s
\* panicked
RunesAdvance(rs) == IF rs = Panic THEN Panic ELSE <<fontAdvance(String(rs))>>
BytesAdvance(s) == IF s = Panic THEN Panic ELSE <<fontAdvance(s)>>

\* <<fontAdvance(string([]rune(s)[:p]), f)>>, or Panic
PrefixAdvance(s, p, grow) == RunesAdvance(RunePrefix(s, p, grow))

\* p = start + (end-start)/2
Mid(start, end) == start + (end - start) \div 2

\* the binary search of fontStringIndex from the bounds start..end; the result
\* is <<"found", p>> (an exact hit), <<"stop", p>> (the loop broke at p) or
\* <<"panic", 0>>
RECURSIVE StringIndexLoop(_, _, _, _, _)

\* one pass of the loop, a being the advance measured at p
StringIndexPass(s, x, start, end, grow, p, a) ==
    IF a = Panic THEN <<"panic", 0>>
    ELSE IF x - a[1] = 0 THEN <<"found", p>>
    ELSE IF x - a[1] > 0
    THEN IF p = start THEN <<"stop", p>>
         ELSE StringIndexLoop(s, x, p, end, grow)
    ELSE IF end = p THEN <<"stop", p>>
         ELSE StringIndexLoop(s, x, start, p, grow)

StringIndexLoop(s, x, start, end, grow) ==
    StringIndexPass(s, x, start, end, grow, Mid(start, end),
                    PrefixAdvance(s, Mid(start, end), grow))

\* NearerIndex with <= for <: of two boundaries equally near, the larger
NearerIndexTieUp(x, p, a1, a2) ==
    IF a1 = Panic \/ a2 = Panic THEN -1
    ELSE IF Abs(x - a2[1]) <= Abs(x - a1[1]) THEN p + 1 ELSE p

\* the choice between p and p+1 after the loop, a1 and a2 being the advances
\* measured at p and at p+1; -1 stands for a panic
NearerIndex(x, p, a1, a2) ==
    IF a1 = Panic \/ a2 = Panic THEN -1
    ELSE IF Abs(x - a2[1]) < Abs(x - a1[1]) THEN p + 1 ELSE p

\* what fontStringIndex returns when its loop ends with l
StringIndexResult(s, x, grow, l) ==
    IF l[1] = "panic" THEN -1
    ELSE IF l[1] = "found" THEN l[2]
    ELSE IF Len(s) > 0
    THEN NearerIndex(x, l[2], PrefixAdvance(s, l[2], grow),
                     PrefixAdvance(s, l[2] + 1, grow))
    ELSE l[2]

\* fontStringIndex(s, f, x): -1 stands for a panic
fontStringIndex(s, x, grow) ==
    StringIndexResult(s, x, grow, StringIndexLoop(s, x, 0, Len(s), grow))

----------------------------------------------------------------------------
(* Input of one frame, as the input package reports it during Render *)

Keys == {"Left", "Right", "Home", "End", "Backspace", "Delete"}

textInputGoLeft == 1
textInputGoRight == 2
textInputGoStart == 3
textInputGoEnd == 4
textInputBackspace == 5
textInputDelete == 6

textInputKeyToCommand ==
    [key \in Keys |->
        CASE key = "Left" -> textInputGoLeft
          [] key = "Right" -> textInputGoRight
          [] key = "Home" -> textInputGoStart
          [] key = "End" -> textInputGoEnd
          [] key = "Backspace" -> textInputBackspace
          [] key = "Delete" -> textInputDelete]

\* the characters of the keyboard of the model: a and e-acute
TypedRunes == {97, 233}

\* input.InputChars(): the characters typed during the frame, in order
CharSeqs == UNION { [1..n -> TypedRunes] : n \in 0..MaxInputs }

\* input.KeyPressed: the set of control keys held down
HeldSets == { h \in SUBSET Keys : Cardinality(h) <= MaxInputs }

\* input.MouseButtonJustPressedLayer and input.CursorPosition: no click, or a
\* click at one of three points (two inside the rectangles, one below them)
NoClick == [pressed |-> FALSE, x |-> 0, y |-> 0]
Clicks == { NoClick,
            [pressed |-> TRUE, x |-> 5, y |-> 10],
            [pressed |-> TRUE, x |-> 15, y |-> 10],
            [pressed |-> TRUE, x |-> 5, y |-> 30] }

InputEvents(in) ==
    Len(in.chars) + Cardinality(in.held) + (IF in.click.pressed THEN 1 ELSE 0)

Samples ==
    { in \in [chars : CharSeqs, held : HeldSets, click : Clicks] :
        InputEvents(in) <= MaxInputs }

NoInput == [chars |-> <<>>, held |-> {}, click |-> NoClick]

----------------------------------------------------------------------------
(* Edit operations. Each takes and returns the record t of the fields of    *)
(* the widget that one Render call reads and writes:                        *)
(*   InputText, cursorPosition, scrollOffset, state, and the bookkeeping    *)
(*   panicked (a panic was raised), ops (operations run, in order),         *)
(*   rejected (the validation function turned an insert down),              *)
(*   trace (kinds of the states evaluated, in order).                       *)

Raise(t) == [t EXCEPT !.panicked = TRUE]
Log(t, op) == [t EXCEPT !.ops = Append(@, op)]

\* the entries of ops: an insert, a control command, a click reposition
InsertOp == [op |-> "insert", cmd |-> 0]
CommandOp(cmd) == [op |-> "command", cmd |-> cmd]
GoXYOp == [op |-> "goXY", cmd |-> 0]

\* head + string(r) + rest, for the rune slices head and rest
Joined(head, mid, rest) ==
    IF head = Panic \/ rest = Panic THEN Panic
    ELSE String(head) \o mid \o String(rest)

\* []rune(s) for a string that may stand for a panic
RunesOf(s) == IF s = Panic THEN Panic ELSE Runes(s)

\* insertChar(s, r, pos)
insertChar(s, r, pos, grow) ==
    Joined(RunePrefix(s, pos, grow), EncodeRune(r), RunesOf(ByteSuffix(s, pos)))

\* removeChar(s, pos)
removeChar(s, pos, grow) ==
    Joined(RunePrefix(s, pos, grow), <<>>, RuneSuffix(s, pos + 1))

\* doInsert once insertChar has returned s, without the validation gate
doInsertUnchecked(t, s) ==
    IF s = Panic THEN Raise(t)
    ELSE [t EXCEPT !.InputText = s, !.cursorPosition = @ + 1]

\* doInsert once insertChar has returned s
doInsertOf(t, s) ==
    IF s = Panic THEN Raise(t)
    ELSE IF validationFunc # "nil" /\ ~validation(s)
    THEN [t EXCEPT !.rejected = TRUE]
    ELSE [t EXCEPT !.InputText = s, !.cursorPosition = @ + 1]

doInsert(t, c, grow) ==
    doInsertOf(t, insertChar(t.InputText, c, t.cursorPosition, grow))

doGoLeft(t) ==
    IF t.cursorPosition > 0 THEN [t EXCEPT !.cursorPosition = @ - 1] ELSE t

doGoRight(t) ==
    IF t.cursorPosition < Len(t.InputText)
    THEN [t EXCEPT !.cursorPosition = @ + 1]
    ELSE t

doGoStart(t) == [t EXCEPT !.cursorPosition = 0]

doGoEnd(t) == [t EXCEPT !.cursorPosition = Len(t.InputText)]

\* Insets.Apply on the horizontal extent of the rectangle
PaddingApply(rect) ==
    [rect EXCEPT !.MinX = @ + PaddingLeft, !.MaxX = @ - PaddingRight]

\* image.Point.In
PointIn(x, y, rect) ==
    rect.MinX <= x /\ x < rect.MaxX /\ rect.MinY <= y /\ y < rect.MaxY

\* if x < tr.Min.X { x = tr.Min.X }; if x > tr.Max.X { x = tr.Max.X }
ClampLow(x, low) == IF x < low THEN low ELSE x
ClampHigh(x, high) == IF x > high THEN high ELSE x

\* t.cursorPosition = i, for the index i fontStringIndex returned
GoToIndex(t, i) == IF i < 0 THEN Raise(t) ELSE [t EXCEPT !.cursorPosition = i]

doGoXY(t, x, y, grow) ==
    IF PointIn(x, y, Rect)
    THEN GoToIndex(t, fontStringIndex(t.InputText,
                          ClampHigh(ClampLow(x, PaddingApply(Rect).MinX),
                                    PaddingApply(Rect).MaxX)
                            - t.scrollOffset - PaddingApply(Rect).MinX,
                          grow))
    ELSE t

\* t.InputText = s, for the string s removeChar returned, and the cursor
\* moved by move
Removed(t, s, move) ==
    IF s = Panic THEN Raise(t)
    ELSE [t EXCEPT !.InputText = s, !.cursorPosition = @ + move]

doBackspace(t, grow) ==
    IF t.cursorPosition > 0
    THEN Removed(t, removeChar(t.InputText, t.cursorPosition - 1, grow), -1)
    ELSE t

doDelete(t, grow) ==
    IF t.cursorPosition < Len(t.InputText)
    THEN Removed(t, removeChar(t.InputText, t.cursorPosition, grow), 0)
    ELSE t

\* t.commandToFunc[cmd]()
commandToFunc(t, cmd, grow) ==
    CASE cmd = textInputGoLeft -> doGoLeft(t)
      [] cmd = textInputGoRight -> doGoRight(t)
      [] cmd = textInputGoStart -> doGoStart(t)
      [] cmd = textInputGoEnd -> doGoEnd(t)
      [] cmd = textInputBackspace -> doBackspace(t, grow)
      [] cmd = textInputDelete -> doDelete(t, grow)

----------------------------------------------------------------------------
(* The input state machine: t.state is one of three closures *)

IdleState(newKeyOrCommand) ==
    [kind |-> "idle", newKeyOrCommand |-> newKeyOrCommand]

CharInputState(c) == [kind |-> "charInput", c |-> c]

\* timer is FALSE for a nil timer; expired is the flag the timer's function sets
CommandState(cmd, key, delay, timer, expired) ==
    [kind |-> "command", cmd |-> cmd, key |-> key, delay |-> delay,
     timer |-> timer, expired |-> expired]

\* the key the iteration over the map textInputKeyToCommand meets first among
\* the keys held down: the iteration order of a Go map is not specified, so
\* any of them
FirstPressed(in) == IF in.held = {} THEN {"none"} ELSE in.held

\* One evaluation of a state closure: <<t, rerun>>

\* return next, false: unless the operation that gave t panicked
Return(t, next) ==
    IF t.panicked THEN <<t, FALSE>> ELSE <<[t EXCEPT !.state = next], FALSE>>

\* the delay idleState hands to commandState
Delay(newKeyOrCommand) == IF newKeyOrCommand THEN repeatDelay ELSE repeatInterval

idleState(t, in, pick, grow) ==
    IF Len(in.chars) > 0
    THEN <<[t EXCEPT !.state = CharInputState(in.chars[1])], TRUE>>
    ELSE IF in.held # {}
    THEN <<[t EXCEPT !.state = CommandState(textInputKeyToCommand[pick], pick,
                                            Delay(t.state.newKeyOrCommand),
                                            FALSE, FALSE)], TRUE>>
    ELSE IF in.click.pressed
    THEN Return(doGoXY(Log(t, GoXYOp), in.click.x, in.click.y, grow),
                IdleState(TRUE))
    ELSE Return(t, IdleState(TRUE))

charInputState(t, grow) ==
    IF ~Disabled
    THEN Return(doInsert(Log(t, InsertOp), t.state.c, grow), IdleState(TRUE))
    ELSE Return(t, IdleState(TRUE))

\* commandState taking a fired timer for a new key press: the next timer is
\* armed with repeatDelay again
commandStateDelayOnly(t, in, grow) ==
    IF t.state.key \notin in.held
    THEN <<[t EXCEPT !.state = IdleState(TRUE)], TRUE>>
    ELSE IF t.state.timer /\ t.state.expired
    THEN <<[t EXCEPT !.state = IdleState(TRUE)], TRUE>>
    ELSE IF ~t.state.timer
    THEN Return(commandToFunc(Log(t, CommandOp(t.state.cmd)), t.state.cmd, grow),
                CommandState(t.state.cmd, t.state.key, t.state.delay, TRUE, FALSE))
    ELSE <<t, FALSE>>

\* commandState leaving the release of the key to the next frame
commandStateLateRelease(t, in, grow) ==
    IF t.state.key \notin in.held
    THEN <<t, FALSE>>
    ELSE IF t.state.timer /\ t.state.expired
    THEN <<[t EXCEPT !.state = IdleState(FALSE)], TRUE>>
    ELSE IF ~t.state.timer
    THEN Return(commandToFunc(Log(t, CommandOp(t.state.cmd)), t.state.cmd, grow),
                CommandState(t.state.cmd, t.state.key, t.state.delay, TRUE, FALSE))
    ELSE <<t, FALSE>>

\* commandState repeating the command of a held key in every frame, without
\* loading the flag of the timer
commandStateEager(t, in, grow) ==
    IF t.state.key \notin in.held
    THEN <<[t EXCEPT !.state = IdleState(TRUE)], TRUE>>
    ELSE IF t.state.timer
    THEN <<[t EXCEPT !.state = IdleState(FALSE)], TRUE>>
    ELSE Return(commandToFunc(Log(t, CommandOp(t.state.cmd)), t.state.cmd, grow),
                CommandState(t.state.cmd, t.state.key, t.state.delay, TRUE, FALSE))

\* commandState asking for a rerun while its timer has not fired
commandStateRerun(t, in, grow) ==
    IF t.state.key \notin in.held
    THEN <<[t EXCEPT !.state = IdleState(TRUE)], TRUE>>
    ELSE IF t.state.timer /\ t.state.expired
    THEN <<[t EXCEPT !.state = IdleState(FALSE)], TRUE>>
    ELSE IF ~t.state.timer
    THEN Return(commandToFunc(Log(t, CommandOp(t.state.cmd)), t.state.cmd, grow),
                CommandState(t.state.cmd, t.state.key, t.state.delay, TRUE, FALSE))
    ELSE <<t, TRUE>>

commandState(t, in, grow) ==
    IF t.state.key \notin in.held
    THEN <<[t EXCEPT !.state = IdleState(TRUE)], TRUE>>
    ELSE IF t.state.timer /\ t.state.expired
    THEN <<[t EXCEPT !.state = IdleState(FALSE)], TRUE>>
    ELSE IF ~t.state.timer
    THEN Return(commandToFunc(Log(t, CommandOp(t.state.cmd)), t.state.cmd, grow),
                CommandState(t.state.cmd, t.state.key, t.state.delay, TRUE, FALSE))
    ELSE <<t, FALSE>>

\* t.state, rerun = t.state(), t being the widget with the evaluation noted
\* in its trace
Evaluate(t, in, pick, grow) ==
    CASE t.state.kind = "idle" -> idleState(t, in, pick, grow)
      [] t.state.kind = "charInput" -> charInputState(t, grow)
      [] t.state.kind = "command" -> commandState(t, in, grow)

EvalState(t, in, pick, grow) ==
    Evaluate([t EXCEPT !.trace = Append(@, t.state.kind)], in, pick, grow)

\* the loop of Render: evaluate until a state asks for no rerun
RECURSIVE RunStates(_, _, _, _)

\* if !rerun { break }, r being what the evaluation returned
Rerun(r, in, pick, grow) ==
    IF r[2] /\ ~r[1].panicked THEN RunStates(r[1], in, pick, grow) ELSE r[1]

RunStates(t, in, pick, grow) ==
    IF Len(t.trace) >= MaxEvals THEN [t EXCEPT !.diverged = TRUE]
    ELSE Rerun(EvalState(t, in, pick, grow), in, pick, grow)

----------------------------------------------------------------------------
(* Viewport: the scroll correction of drawTextAndCaret *)

\* cx: advance of t.InputText[:t.cursorPosition]; <<cx>> or Panic
CaretAdvance(text, cursor) == BytesAdvance(BytePrefix(text, cursor))

\* the right clamp without the right padding
ClampRightNoPadding(so, cx) ==
    LET dx == (Rect.MinX + PaddingLeft) + so + cx + CaretWidth - Rect.MaxX
    IN  IF dx > 0 THEN so - dx ELSE so

\* the offset after the right clamp
ClampRight(so, cx) ==
    LET dx == (Rect.MinX + PaddingLeft) + so + cx + CaretWidth + PaddingRight
              - Rect.MaxX
    IN  IF dx > 0 THEN so - dx ELSE so

\* the offset after the left clamp
ClampLeft(so, cx) ==
    LET dx == (Rect.MinX + PaddingLeft) + so + cx - PaddingLeft - Rect.MinX
    IN  IF dx < 0 THEN so - dx ELSE so

\* the two clamps of drawTextAndCaret, cx being the advance it measured
Scrolled(t, cx) ==
    IF cx = Panic THEN Raise(t)
    ELSE [t EXCEPT !.scrollOffset = ClampLeft(ClampRight(@, cx[1]), cx[1])]

drawTextAndCaret(t) == Scrolled(t, CaretAdvance(t.InputText, t.cursorPosition))

----------------------------------------------------------------------------
(* Render *)

\* the clamp at the head of Render
ClampCursor(text, cursor) == IF cursor > Len(text) THEN Len(text) ELSE cursor

\* the fields of the widget at the start of a Render call
Widget ==
    [InputText |-> InputText,
     cursorPosition |-> cursorPosition,
     scrollOffset |-> scrollOffset,
     state |-> state,
     panicked |-> FALSE, diverged |-> FALSE, rejected |-> FALSE,
     ops |-> <<>>, trace |-> <<>>]

\* the end of Render: the widget is drawn unless the loop panicked or did
\* not end
Drawn(t) == IF t.panicked \/ t.diverged THEN t ELSE drawTextAndCaret(t)

\* the widget after Render ran on the input sample in
RenderResult(in, pick, grow) ==
    Drawn(RunStates([Widget EXCEPT !.cursorPosition = ClampCursor(InputText, @)],
                    in, pick, grow))

\* every result the build and the map iteration allow for the sample in
RenderOutcomes(in) ==
    { RenderResult(in, pick, grow) : pick \in FirstPressed(in), grow \in BOOLEAN }

\* the history of the Render call of the frame, kept until the frame
\* ends: the text, the cursor, the offset and t.state as the call found
\* them, ops (the edit operations it ran), rejected (the validation function
\* turned the insert down), trace (the kinds of the states it evaluated),
\* diverged (its loop did not end)
NoFrame ==
    [text0 |-> <<>>, cursor0 |-> 0, scroll0 |-> 0, state0 |-> IdleState(TRUE),
     ops |-> <<>>, rejected |-> FALSE, trace |-> <<>>, diverged |-> FALSE]

FrameOf(t) ==
    [text0 |-> InputText, cursor0 |-> cursorPosition, scroll0 |-> scrollOffset,
     state0 |-> state, ops |-> t.ops, rejected |-> t.rejected,
     trace |-> t.trace, diverged |-> t.diverged]

\* the input package samples the keyboard and the mouse for the frame
BeginFrameOn(S) ==
    /\ ~panicked
    /\ pc = "idle"
    /\ \E in \in S :
         /\ in.chars # <<>> => Len(InputText) < MaxBytes
         /\ input' = in
    /\ pc' = "frame"
    /\ UNCHANGED <<InputText, cursorPosition, scrollOffset, state, Disabled,
                   Rect, validationFunc, panicked, frame,
                   fillVars, call>>

BeginFrame == BeginFrameOn(Samples)

\* TextInput.Render on the sampled input
Render ==
    /\ pc = "frame"
    /\ \E t \in RenderOutcomes(input) :
         /\ InputText' = t.InputText
         /\ cursorPosition' = t.cursorPosition
         /\ scrollOffset' = t.scrollOffset
         /\ state' = t.state
         /\ panicked' = t.panicked
         /\ frame' = FrameOf(t)
    /\ pc' = "rendered"
    /\ UNCHANGED <<Disabled, Rect, validationFunc, input,
                   fillVars, call>>

\* Render has returned and the frame ends: the characters and the click of
\* the frame are gone, the keys are sampled anew by the next frame
EndFrame ==
    /\ pc = "rendered"
    /\ ~panicked
    /\ ~frame.diverged
    /\ pc' = "idle"
    /\ input' = NoInput
    /\ frame' = NoFrame
    /\ UNCHANGED <<InputText, cursorPosition, scrollOffset, state, Disabled,
                   Rect, validationFunc, panicked,
                   fillVars, call>>

----------------------------------------------------------------------------
(* What happens between two frames *)

Between == ~panicked /\ pc = "idle"

\* the function of time.AfterFunc runs: expired.Store(true)
TimerFire ==
    /\ Between
    /\ state.kind = "command"
    /\ state.timer
    /\ ~state.expired
    /\ state' = [state EXCEPT !.expired = TRUE]
    /\ UNCHANGED <<InputText, cursorPosition, scrollOffset, Disabled, Rect,
                   validationFunc, panicked, pc, input, frame,
                   fillVars, call>>

\* the application assigns the exported field InputText
SetTextOn(T) ==
    /\ Between
    /\ \E s \in T : s # InputText /\ InputText' = s
    /\ UNCHANGED <<cursorPosition, scrollOffset, state, Disabled, Rect,
                   validationFunc, panicked, pc, input, frame,
                   fillVars, call>>

SetText == SetTextOn(Texts)

\* the layout calls SetLocation
SetLocation ==
    /\ Between
    /\ \E r \in Rects : r # Rect /\ Rect' = r
    /\ UNCHANGED <<InputText, cursorPosition, scrollOffset, state, Disabled,
                   validationFunc, panicked, pc, input, frame,
                   fillVars, call>>

\* the application enables or disables the widget
SetDisabled ==
    /\ Between
    /\ Disabled' = ~Disabled
    /\ UNCHANGED <<InputText, cursorPosition, scrollOffset, state, Rect,
                   validationFunc, panicked, pc, input, frame,
                   fillVars, call>>

\* Insets{}: the zero value
ZeroInsets == [Top |-> 0, Left |-> 0, Right |-> 0, Bottom |-> 0]

\* the widgets a fill layout may be asked to lay out
Widgets == {1, 2}

\* the history of the calls on the fill layout: op, the last call, with the
\* widgets and the rectangle it was given; marked, MarkDirty was called
\* since the last call of Layout; and of the last call of Layout: was (the
\* value of marked when it was called), set (it called SetLocation) and
\* before (the locations as it found them). Here no call was made yet.
NoLaid ==
    [op |-> "new", widgets |-> <<>>, rect |-> ZeroRect, marked |-> FALSE,
     was |-> FALSE, set |-> FALSE, before |-> [w \in Widgets |-> ZeroRect]]

\* no fill layout is in use: the zero value of the struct
NoFillLayout ==
    /\ padding = ZeroInsets
    /\ dirty = FALSE
    /\ location = [w \in Widgets |-> ZeroRect]
    /\ laid = NoLaid

\* no function was called on its own
NoCall == [fn |-> "none", s |-> <<>>, r |-> 0, pos |-> 0, x |-> 0,
          grow |-> FALSE, out |-> <<>>]

\* NewTextInput and the first layout: the zero value of the struct, the
\* state Idle, the validation function given as an option, and a rectangle
\* 100 wide whose content rectangle starts at x = 0
Init ==
    /\ InputText = <<>>
    /\ cursorPosition = 0
    /\ scrollOffset = 0
    /\ state = IdleState(TRUE)
    /\ Disabled = FALSE
    /\ Rect = [MinX |-> -5, MinY |-> 0, MaxX |-> 95, MaxY |-> 20]
    /\ validationFunc \in ValidationFuncs
    /\ panicked = FALSE
    /\ pc = "idle"
    /\ input = NoInput
    /\ frame = NoFrame
    /\ NoFillLayout
    /\ call = NoCall

Next == BeginFrame \/ Render \/ EndFrame \/ TimerFire \/ SetText \/ SetDisabled

Spec == Init /\ [][Next]_vars

----------------------------------------------------------------------------
(* The viewport: a widget without validation function, laid out anew       *)
(* between frames, given wide texts, and driven by the keyboard alone      *)

\* the samples of fewer than MaxInputs keyboard events and no click
ScrollSamples ==
    { in \in Samples : in.click = NoClick /\ InputEvents(in) <= MaxInputs - 1 }

InitScroll ==
    /\ InputText = <<>>
    /\ cursorPosition = 0
    /\ scrollOffset = 0
    /\ state = IdleState(TRUE)
    /\ Disabled = FALSE
    /\ Rect = ZeroRect
    /\ validationFunc = "nil"
    /\ panicked = FALSE
    /\ pc = "idle"
    /\ input = NoInput
    /\ frame = NoFrame
    /\ NoFillLayout
    /\ call = NoCall

BeginScrollFrame == BeginFrameOn(ScrollSamples)

SetScrollText == SetTextOn(ScrollTexts)

NextScroll ==
    \/ BeginScrollFrame
    \/ Render
    \/ EndFrame
    \/ SetScrollText
    \/ SetLocation

SpecScroll == InitScroll /\ [][NextScroll]_vars

----------------------------------------------------------------------------
(* The repeat timer against the frame loop: the function of the timer runs *)
(* on its own goroutine, at any moment, also while a frame is under way.   *)
(* Render loads the flag of an armed timer at most once per call, so a     *)
(* firing during the call is a firing before or after that load: before    *)
(* Render or after it.                                                     *)

\* the samples of held control keys alone
KeySamples == { in \in Samples : in.click = NoClick /\ in.chars = <<>> }

BeginKeyFrame == BeginFrameOn(KeySamples)

\* the function of time.AfterFunc runs, whatever the frame loop is doing
TimerExpires ==
    /\ ~panicked
    /\ state.kind = "command"
    /\ state.timer
    /\ ~state.expired
    /\ state' = [state EXCEPT !.expired = TRUE]
    /\ UNCHANGED <<InputText, cursorPosition, scrollOffset, Disabled, Rect,
                   validationFunc, panicked, pc, input, frame, fillVars, call>>

NextTimer ==
    \/ BeginKeyFrame
    \/ Render
    \/ EndFrame
    \/ TimerExpires
    \/ SetText

SpecTimer == Init /\ [][NextTimer]_vars

----------------------------------------------------------------------------
(* fontStringIndex and insertChar called on their own, on every text of up *)
(* to MaxCallRunes characters of one and of two bytes                      *)

\* most characters of the text of a call
MaxCallRunes == 3
\* the largest target x of a call, in pixels
MaxCallX == 35

\* the texts of at most MaxCallRunes characters out of 'a' and U+00E9
CallTexts == { String(rs) : rs \in UNION { [1..n -> TypedRunes] : n \in 0..MaxCallRunes } }

\* the arguments of a call: the string s, the character r, the position pos,
\* the target x, and whether the build leaves slices spare capacity
CallInputs ==
    { [NoCall EXCEPT !.s = s, !.r = r, !.pos = pos, !.x = x, !.grow = grow] :
        s \in CallTexts, r \in TypedRunes, pos \in 0..MaxCallRunes,
        x \in -3..MaxCallX, grow \in BOOLEAN }

\* the widget is not in use, the arguments are any of CallInputs
InitCalls ==
    /\ InputText = <<>>
    /\ cursorPosition = 0
    /\ scrollOffset = 0
    /\ state = IdleState(TRUE)
    /\ Disabled = FALSE
    /\ Rect = ZeroRect
    /\ validationFunc = "nil"
    /\ panicked = FALSE
    /\ pc = "idle"
    /\ input = NoInput
    /\ frame = NoFrame
    /\ NoFillLayout
    /\ call \in CallInputs

\* call.out after the function fn returned out
Called(fn, out) ==
    /\ call.fn = "none"
    /\ call' = [call EXCEPT !.fn = fn, !.out = out]
    /\ UNCHANGED <<InputText, cursorPosition, scrollOffset, state, Disabled,
                   Rect, validationFunc, panicked, pc, input, frame, fillVars>>

\* fontStringIndex(s, f, x); out is <<index>>, or Panic
CallFontStringIndex ==
    Called("fontStringIndex", <<fontStringIndex(call.s, call.x, call.grow)>>)

\* insertChar(s, r, pos) at a code-point position of s; out is the string,
\* or Panic
CallInsertChar ==
    /\ call.pos <= RuneCount(call.s)
    /\ Called("insertChar", insertChar(call.s, call.r, call.pos, call.grow))

NextCalls == CallFontStringIndex \/ CallInsertChar

SpecCalls == InitCalls /\ [][NextCalls]_vars

----------------------------------------------------------------------------
(* The fill layout: NewFillLayout, then MarkDirty and Layout in any order,  *)
(* Layout with any list of widgets and any rectangle                       *)

\* the paddings given to NewFillLayout: none, or the option Padding
Paddings == { ZeroInsets, [Top |-> 1, Left |-> 5, Right |-> 5, Bottom |-> 1] }

\* the lists of widgets handed to Layout: none, one or two widgets
WidgetLists ==
    { ws \in UNION { [1..n -> Widgets] : n \in 0..2 } :
        \A i, j \in DOMAIN ws : ws[i] = ws[j] => i = j }

\* Insets.Apply
InsetsApply(i, rect) ==
    [MinX |-> rect.MinX + i.Left, MinY |-> rect.MinY + i.Top,
     MaxX |-> rect.MaxX - i.Right, MaxY |-> rect.MaxY - i.Bottom]

\* NewFillLayout; the widgets have not been given a location
InitLayout ==
    /\ InputText = <<>>
    /\ cursorPosition = 0
    /\ scrollOffset = 0
    /\ state = IdleState(TRUE)
    /\ Disabled = FALSE
    /\ Rect = ZeroRect
    /\ validationFunc = "nil"
    /\ panicked = FALSE
    /\ pc = "idle"
    /\ input = NoInput
    /\ frame = NoFrame
    /\ call = NoCall
    /\ padding \in Paddings
    /\ dirty = FALSE
    /\ location = [w \in Widgets |-> ZeroRect]
    /\ laid = NoLaid

\* the text input is not part of the step
TextInputUnchanged ==
    UNCHANGED <<InputText, cursorPosition, scrollOffset, state, Disabled, Rect,
                validationFunc, panicked, pc, input, frame, call>>

MarkDirty ==
    /\ dirty' = TRUE
    /\ laid' = [laid EXCEPT !.op = "MarkDirty", !.marked = TRUE]
    /\ UNCHANGED <<padding, location>>
    /\ TextInputUnchanged

\* the history after Layout(widgets, rect), set telling whether it called
\* SetLocation
LaidOut(widgets, rect, set) ==
    [op |-> "Layout", widgets |-> widgets, rect |-> rect, marked |-> FALSE,
     was |-> laid.marked, set |-> set, before |-> location]

\* Layout with the reset of dirty after the test for an empty list, not
\* deferred
LayoutWithoutDefer(widgets, rect) ==
    /\ IF ~dirty \/ widgets = <<>>
       THEN UNCHANGED <<dirty, location>> /\ laid' = LaidOut(widgets, rect, FALSE)
       ELSE /\ location' = [location EXCEPT ![widgets[1]] = InsetsApply(padding, rect)]
            /\ dirty' = FALSE
            /\ laid' = LaidOut(widgets, rect, TRUE)
    /\ UNCHANGED padding
    /\ TextInputUnchanged

Layout(widgets, rect) ==
    /\ IF ~dirty
       THEN UNCHANGED <<dirty, location>> /\ laid' = LaidOut(widgets, rect, FALSE)
       ELSE IF widgets = <<>>
       THEN /\ dirty' = FALSE
            /\ UNCHANGED location
            /\ laid' = LaidOut(widgets, rect, FALSE)
       ELSE /\ location' = [location EXCEPT ![widgets[1]] = InsetsApply(padding, rect)]
            /\ dirty' = FALSE
            /\ laid' = LaidOut(widgets, rect, TRUE)
    /\ UNCHANGED padding
    /\ TextInputUnchanged

\* the container lays out its widgets in one of its rectangles
CallLayout == \E widgets \in WidgetLists, rect \in Rects : Layout(widgets, rect)

NextLayout == MarkDirty \/ CallLayout

SpecLayout == InitLayout /\ [][NextLayout]_vars

----------------------------------------------------------------------------
(* Properties. They are stated on the states in which Render has just run, *)
(* where frame holds what the call found and input what it was given.      *)

\* Render has run on the sample in input
Rendered == pc = "rendered"

\* Render has run and returned
Returned == pc = "rendered" /\ ~panicked

\* the cursor as the clamp at the head of Render left it
Clamped0 == ClampCursor(frame.text0, frame.cursor0)

\* C1: after Render returns, the cursor index lies in [0, number of code
\* points of the content], also when the content holds characters of more
\* than one byte.
C1_CursorWithinCodePoints ==
    Returned => cursorPosition \in 0..RuneCount(InputText)

\* the candidate text of the frame: its first typed character inserted at
\* the clamped cursor
Candidate == insertChar(frame.text0, input.chars[1], Clamped0, TRUE)

\* the validation function turns the text cand down
Rejects(cand) == validationFunc # "nil" /\ ~validation(cand)

\* the gate of C2 on the candidate cand, from, the cursor it starts from
GateFrom(cand, from) ==
    IF Rejects(cand)
    THEN InputText = frame.text0 /\ cursorPosition = from
    ELSE InputText = cand /\ cursorPosition = from + 1

C3_KeyRepeat ==
    Rendered /\ input.chars = <<>> /\ Cardinality(input.held) = 1 =>
        LET key == CHOOSE k \in input.held : TRUE
            cmd == textInputKeyToCommand[key]
            st0 == frame.state0
        IN  /\ st0.kind = "idle" =>
                /\ frame.ops = <<CommandOp(cmd)>>
                /\ ~panicked =>
                      state = CommandState(cmd, key, repeatDelay, TRUE, FALSE)
            /\ st0.kind = "command" /\ st0.key = key /\ ~st0.expired =>
                /\ frame.ops = <<>>
                /\ state = st0
                /\ InputText = frame.text0
            /\ st0.kind = "command" /\ st0.key = key /\ st0.expired =>
                /\ frame.ops = <<CommandOp(cmd)>>
                /\ ~panicked =>
                      state = CommandState(cmd, key, repeatInterval, TRUE, FALSE)
            /\ /\ frame.ops = <<CommandOp(textInputBackspace)>>
               /\ Clamped0 > 0
               /\ Clamped0 = RuneCount(frame.text0)
               => /\ ~panicked
                  /\ Runes(InputText) = Upto(Runes(frame.text0), Clamped0 - 1)
                  /\ cursorPosition = Clamped0 - 1

\* C3 witness: Backspace, held since Idle, has just been repeated in the
\* frame after its repeatDelay timer fired, and waits on a timer of
\* repeatInterval: "aa" has become "a".
C3_Witness ==
    /\ Returned
    /\ frame.state0 = CommandState(textInputBackspace, "Backspace", repeatDelay, TRUE, TRUE)
    /\ frame.ops = <<CommandOp(textInputBackspace)>>
    /\ state = CommandState(textInputBackspace, "Backspace", repeatInterval, TRUE, FALSE)
    /\ frame.text0 = <<97, 97>>
    /\ InputText = <<97>>

\* C4: when the key of CommandRepeat is not held as a frame is evaluated,
\* the machine is in Idle within the same Render call and the command of
\* that key does not run in the frame, whether or not its timer has fired.
C4_ReleaseGoesIdle ==
    Rendered /\ frame.state0.kind = "command" /\ frame.state0.key \notin input.held =>
        /\ Len(frame.trace) >= 2
        /\ frame.trace[1] = "command"
        /\ frame.trace[2] = "idle"
        /\ \A i \in 1..Len(frame.ops) : frame.ops[i] # CommandOp(frame.state0.cmd)
        /\ ~panicked => ~(state.kind = "command" /\ state.key = frame.state0.key)

\* C4 witness: the key was released after its timer had fired, and the frame
\* ended in Idle without running a command.
C4_Witness ==
    /\ Returned
    /\ frame.state0.kind = "command"
    /\ frame.state0.expired
    /\ frame.state0.key \notin input.held
    /\ frame.trace = <<"command", "idle">>
    /\ frame.ops = <<>>
    /\ state = IdleState(TRUE)

\* C5: one Render call runs at most one edit operation, and the number of
\* code points of the content changes by at most one.
C5_OneEditPerFrame ==
    Returned =>
        /\ Len(frame.ops) <= 1
        /\ Abs(RuneCount(InputText) - RuneCount(frame.text0)) <= 1

\* C6: in every frame in which a character was typed and the widget is
\* enabled, the first typed character is inserted and no control command
\* runs, whatever keys are held and whatever state the machine was in.
C6_CharacterHasPriority ==
    Rendered /\ input.chars # <<>> /\ ~Disabled => frame.ops = <<InsertOp>>

\* C7: with several control keys held, the command that runs is fixed by
\* the widget state and the input sample: any two evaluations of the same
\* frame reach the same content and cursor.
C7_DeterministicKeyOrder ==
    pc = "frame" =>
        \A grow \in BOOLEAN :
            Cardinality({ <<t.InputText, t.cursorPosition>> :
                            t \in { RenderResult(input, k, grow) :
                                      k \in FirstPressed(input) } }) <= 1

\* C8: while the widget is disabled, a Render call changes neither content
\* nor cursor, whatever is typed or held (stated for the frames without a
\* click: whether a click reaches a disabled widget is decided by the input
\* layer of the widget shell).
C8_DisabledChangesNothing ==
    Returned /\ Disabled /\ ~input.click.pressed =>
        InputText = frame.text0 /\ cursorPosition = frame.cursor0

\* the padded content rectangle, horizontally
ContentLeft == Rect.MinX + PaddingLeft
ContentRight == Rect.MaxX - PaddingRight

\* the text before the cursor: the first cursor code points of text
TextBeforeCursor(text, cursor) ==
    String(Upto(Runes(text), ClampHigh(cursor, RuneCount(text))))

\* C9: after every Render call on a widget whose padded content rectangle
\* has a non-negative width, the screen X of the caret (left of the content
\* rectangle + scrollOffset + advance of the text before the cursor) lies
\* within [left, right] of the content rectangle.
C9_CaretWithinContent ==
    Returned /\ ContentRight >= ContentLeft =>
        LET x == ContentLeft + scrollOffset
                 + fontAdvance(TextBeforeCursor(InputText, cursorPosition))
        IN  ContentLeft <= x /\ x <= ContentRight

\* the right edge of a caret at advance cx under the offset so, with the
\* right padding
RightEdge(so, cx) == ContentLeft + so + cx + CaretWidth + PaddingRight

ClickedAb(x) ==
    /\ Rendered
    /\ frame.ops = <<GoXYOp>>
    /\ frame.text0 = <<97, 98>>
    /\ frame.scroll0 = 0
    /\ ContentLeft = 0
    /\ input.click.x = x
    /\ PointIn(input.click.x, input.click.y, Rect)

\* C11, as claimed: on "ab" at scroll offset 0 a click at x = 5 sets the
\* cursor to 0 and a click at x = 15 sets it to 2.
C11_ClickAsClaimed ==
    /\ ClickedAb(5) => ~panicked /\ cursorPosition = 0
    /\ ClickedAb(15) => ~panicked /\ cursorPosition = 2

\* C11, amended: on "ab" at scroll offset 0 a click at x = 5 sets the cursor
\* to 0 and a click at x = 15 sets it to 1: x = 15 is as near to the boundary
\* at 10 as to the one at 20, and of two boundaries equally near the one of
\* the smaller index is taken, as at x = 5.
C11_Click ==
    /\ ClickedAb(5) => ~panicked /\ cursorPosition = 0
    /\ ClickedAb(15) => ~panicked /\ cursorPosition = 1

\* C11 witness: a click at x = 15 on "ab" has put the cursor, that was
\* elsewhere, at 1.
C11_Witness ==
    ClickedAb(15) /\ ~panicked /\ cursorPosition = 1 /\ frame.cursor0 # 1

\* fontAdvance of the first i code points of s, in pixels
BoundaryAdvance(s, i) == fontAdvance(String(Upto(Runes(s), i)))

\* the code-point boundaries of s
Boundaries(s) == 0..RuneCount(s)

\* the prefix advances of s do not decrease
NonDecreasing(s) ==
    \A i \in Boundaries(s) : i > 0 => BoundaryAdvance(s, i - 1) <= BoundaryAdvance(s, i)

\* the boundary p of s is nearest to x, and the smallest of those as near
Nearest(s, x, p) ==
    /\ p \in Boundaries(s)
    /\ \A i \in Boundaries(s) :
         /\ Abs(x - BoundaryAdvance(s, p)) <= Abs(x - BoundaryAdvance(s, i))
         /\ Abs(x - BoundaryAdvance(s, p)) = Abs(x - BoundaryAdvance(s, i)) => p <= i

\* fontStringIndex has been called on a text whose prefix advances do not
\* decrease
IndexCalled == call.fn = "fontStringIndex" /\ NonDecreasing(call.s)

\* C12: for every text whose prefix advances do not decrease and every
\* integer x, fontStringIndex returns, and what it returns is a code-point
\* boundary of the text, in 0..number of code points, whose prefix advance is
\* nearest to x, the smallest such boundary when two are equally near.
C12_NearestBoundary ==
    IndexCalled => call.out # Panic /\ Nearest(call.s, call.x, call.out[1])

\* the same for the texts that hold one-byte characters only
C12_NearestBoundaryOneByte ==
    IndexCalled /\ Len(call.s) = RuneCount(call.s) =>
        call.out # Panic /\ Nearest(call.s, call.x, call.out[1])

\* Render has returned leaving the machine in CommandRepeat for a key that
\* was not the key being repeated when it was called
FirstEntry ==
    /\ Returned
    /\ state.kind = "command"
    /\ ~(frame.state0.kind = "command" /\ frame.state0.key = state.key)

\* C13: whenever a command starts for a key that was not the key being
\* repeated before, the command is executed at once and the timer armed for
\* it has the duration repeatDelay, also in the frame in which the repeat
\* timer of another held key has just expired.
C13_FirstEntryDelay ==
    FirstEntry =>
        /\ frame.ops = <<CommandOp(state.cmd)>>
        /\ state.timer
        /\ state.delay = repeatDelay

\* Render has just run the command cmd, and nothing else
Commanded(cmd) == Rendered /\ frame.ops = <<CommandOp(cmd)>>

\* the code points rs without the one at position i (counted from 0)
WithoutRune(rs, i) == Upto(rs, i) \o From(rs, i + 1)

\* the content is what it was without the code point at position i, and
\* the cursor is at to
RemovedAt(i, to) ==
    /\ i < RuneCount(frame.text0)
    /\ Runes(InputText) = WithoutRune(Runes(frame.text0), i)
    /\ cursorPosition = to

\* content and cursor are what they were when the command started
Untouched == InputText = frame.text0 /\ cursorPosition = Clamped0

\* C14: Backspace with the cursor above 0 removes the code point just before
\* the cursor and moves the cursor down by one; Delete with the cursor below
\* the number of code points removes the code point at the cursor and
\* leaves the cursor; both whatever the validation function would say of the
\* shortened text; Backspace at 0 and Delete at the end change neither the
\* content nor the cursor.
C14_BackspaceDelete ==
    /\ Commanded(textInputBackspace) =>
         /\ ~panicked
         /\ IF Clamped0 > 0 THEN RemovedAt(Clamped0 - 1, Clamped0 - 1)
            ELSE Untouched
    /\ Commanded(textInputDelete) =>
         /\ ~panicked
         /\ IF Clamped0 < RuneCount(frame.text0) THEN RemovedAt(Clamped0, Clamped0)
            ELSE Untouched

\* the same for a content of one-byte characters only
C14_BackspaceDeleteOneByte ==
    Len(frame.text0) = RuneCount(frame.text0) => C14_BackspaceDelete

\* the code points rs with r put in at position i (counted from 0)
WithRune(rs, r, i) == Upto(rs, i) \o <<r>> \o From(rs, i)

\* C15: for every content and every position i from 0 to its number of code
\* points, insertChar(content, ch, i) returns the code points before i, then
\* ch, then the code points from i on: one code point more, every original
\* one kept in order, also for content with characters of more than one
\* byte.
C15_InsertChar ==
    call.fn = "insertChar" =>
        /\ call.out # Panic
        /\ Runes(call.out) = WithRune(Runes(call.s), call.r, call.pos)

\* the same for a content of one-byte characters only
C15_InsertCharOneByte ==
    Len(call.s) = RuneCount(call.s) => C15_InsertChar

\* the position the edit operation of the frame handed to insertChar or to
\* removeChar lies in lo..hi
EditWithin(lo, hi) == lo <= Clamped0 /\ Clamped0 <= hi

\* C16: in every reachable state the edit operations are called in range
\* only: with n the number of code points of the content, insertChar with a
\* position in 0..n and removeChar with one in 0..n-1 (Backspace hands over
\* the cursor less one, Delete the cursor), the prefix measured for the
\* caret lies within the text, and no slice expression is out of range.
C16_EditsInRange ==
    Rendered =>
        /\ ~panicked
        /\ frame.ops = <<InsertOp>> => EditWithin(0, RuneCount(frame.text0))
        /\ Commanded(textInputBackspace) /\ Clamped0 > 0 =>
              EditWithin(1, RuneCount(frame.text0))
        /\ Commanded(textInputDelete) /\ Clamped0 < Len(frame.text0) =>
              EditWithin(0, RuneCount(frame.text0) - 1)
        /\ cursorPosition <= Len(InputText)

\* the same for frames that start and end with one-byte characters only
C16_EditsInRangeOneByte ==
    Len(frame.text0) = RuneCount(frame.text0) /\ Len(InputText) = RuneCount(InputText) =>
        C16_EditsInRange

\* the step is a call of Render
RenderStep == pc = "frame" /\ pc' = "rendered"

\* the frame ran the command of the key the machine was repeating when
\* Render was called: a repeat
Repeat ==
    /\ frame.state0.kind = "command"
    /\ frame.ops = <<CommandOp(frame.state0.cmd)>>

\* the frame ran a command, and with it armed a new timer
Armed == frame.ops # <<>> /\ frame.ops[1].op = "command"

\* the step leaves the flag alone, or it is the function of the armed timer
\* of the current state setting a flag that was false
OnlyTimerStores ==
    state' # state =>
        /\ state.kind = "command"
        /\ state.timer
        /\ ~state.expired
        /\ state' = [state EXCEPT !.expired = TRUE]

\* what a call of Render does with the timers: a repeat only with the flag
\* of the current timer loaded as true; the timer a command arms has its own
\* flag, false; and a timer the call leaves in place keeps its flag
RenderLoadsOnly ==
    /\ Repeat' => state.timer /\ state.expired
    /\ Armed' /\ ~panicked' =>
          state'.kind = "command" /\ state'.timer /\ ~state'.expired
    /\ ~Armed' /\ state'.kind = "command" => state' = state
    /\ Len(frame'.ops) <= 1

\* C17: the expired flag of a timer is written by the function of that timer
\* only, goes from false to true at most once and never back, and is only
\* read by the frame loop; whenever the timer fires, before, during or after
\* a frame, a command is repeated only in a frame that found the flag of the
\* current timer true, and the repeat arms a new timer with a flag of its
\* own, false, so that one firing gives at most one repeat.
C17_TimerFlags ==
    [][IF RenderStep THEN RenderLoadsOnly ELSE OnlyTimerStores]_vars

\* C17 witness: a timer fired and the frame that found its flag true has
\* repeated the command of the held key and armed a timer of repeatInterval
\* whose flag is false.
C17_Witness ==
    /\ Returned
    /\ Repeat
    /\ frame.state0.expired
    /\ state = CommandState(frame.state0.cmd, frame.state0.key, repeatInterval,
                            TRUE, FALSE)

\* the machine rests: Idle, or CommandRepeat with its timer armed
Resting == state.kind = "idle" \/ (state.kind = "command" /\ state.timer)

\* C18: with the input sample constant during the frame, the loop of Render
\* ends after at most three state evaluations, whatever state the machine
\* was in, and the state it leaves to the next frame is Idle or
\* CommandRepeat with an armed timer.
C18_LoopTerminates ==
    Rendered =>
        /\ ~frame.diverged
        /\ Len(frame.trace) \in 1..3
        /\ ~panicked => Resting

\* C18 witness: Render has evaluated three states, CommandRepeat with a fired
\* timer, Idle and CommandRepeat without timer, and has left CommandRepeat
\* with an armed timer.
C18_Witness ==
    /\ Returned
    /\ frame.trace = <<"command", "idle", "command">>
    /\ frame.state0.expired
    /\ state.kind = "command"
    /\ state.timer

\* a caret at advance cx is fully visible under the offset so
FullyVisible(so, cx) == so + cx >= 0 /\ RightEdge(so, cx) <= Rect.MaxX

\* the caret of the frame was fully visible when its scroll correction
\* started, cx being its advance
VisibleAtStart(cx) == FullyVisible(frame.scroll0, cx)

\* C19: a frame whose scroll correction finds the caret fully visible
\* (scrollOffset + caret X >= 0, and left of the content rectangle +
\* scrollOffset + caret X + caret width + right padding <= right edge of
\* the rectangle) leaves scrollOffset as it was; and scrollOffset is at most
\* 0 in every reachable state.
C19_VisibleCaretNoScroll ==
    /\ scrollOffset <= 0
    /\ Returned /\ VisibleAtStart(fontAdvance(TextBeforeCursor(InputText, cursorPosition)))
          => scrollOffset = frame.scroll0

\* the same with the caret X that drawTextAndCaret measures
C19_MeasuredCaret ==
    /\ scrollOffset <= 0
    /\ Returned /\ VisibleAtStart(CaretAdvance(InputText, cursorPosition)[1])
          => scrollOffset = frame.scroll0

\* the last call on the fill layout was Layout
LayoutCalled == laid.op = "Layout"

\* the location of every widget but w is what Layout found
OthersKept(w) == \A v \in Widgets : v # w => location[v] = laid.before[v]

\* C20: for the fill layout, across any sequence of MarkDirty and Layout
\* calls: Layout sets the location of the first widget to the rectangle
\* inset by the padding exactly when MarkDirty was called since the previous
\* Layout call; every Layout call leaves the layout not dirty, also with an
\* empty list of widgets; and Layout on a layout that is not dirty, a new
\* one included, changes no location.
C20_FillLayout ==
    LayoutCalled =>
        /\ ~dirty
        /\ laid.widgets # <<>> => (laid.set <=> laid.was)
        /\ laid.widgets = <<>> => ~laid.set
        /\ IF laid.set
           THEN /\ location[laid.widgets[1]] = InsetsApply(padding, laid.rect)
                /\ OthersKept(laid.widgets[1])
           ELSE location = laid.before

\* C20 witness: MarkDirty, then Layout of two widgets with a padding: the
\* first widget has been moved to the inset rectangle, the layout is not
\* dirty.
C20_Witness ==
    /\ LayoutCalled
    /\ laid.was
    /\ laid.set
    /\ Len(laid.widgets) = 2
    /\ padding # ZeroInsets
    /\ location # laid.before
    /\ location[laid.widgets[1]] = InsetsApply(padding, laid.rect)
    /\ ~dirty

====
